---- MODULE Spec2Model ----
(***************************************************************************)
(* Model of runtime/errors.go of the gRPC gateway: the status translator   *)
(* (HTTPStatusFromCode, HTTPStatusStringFromCode) and the error response   *)
(* renderer DefaultHTTPError, one program counter per in-flight request.   *)
(***************************************************************************)
EXTENDS Integers, Sequences, FiniteSets, TLC

(* ---------------- bounds ---------------- *)
MaxCode == 18            \* status errors carry the codes 0 .. MaxCode
MaxTranslateCode == 40   \* the translators are applied to 0 .. MaxTranslateCode and to 2^31-1
MaxDetails == 2          \* longest list of detail records on a status
MaxMDKeys == 2           \* number of distinct header keys a ServerMetadata may hold

(* ---------------- google.golang.org/grpc/codes ---------------- *)
CodeOK == 0
CodeCanceled == 1
CodeUnknown == 2
CodeInvalidArgument == 3
CodeDeadlineExceeded == 4
CodeNotFound == 5
CodeAlreadyExists == 6
CodePermissionDenied == 7
CodeResourceExhausted == 8
CodeFailedPrecondition == 9
CodeAborted == 10
CodeOutOfRange == 11
CodeUnimplemented == 12
CodeInternal == 13
CodeUnavailable == 14
CodeDataLoss == 15
CodeUnauthenticated == 16

(* ---------------- net/http status constants ---------------- *)
StatusOK == 200
StatusBadRequest == 400
StatusUnauthorized == 401
StatusForbidden == 403
StatusNotFound == 404
StatusRequestTimeout == 408
StatusConflict == 409
StatusPreconditionFailed == 412
StatusInternalServerError == 500
StatusNotImplemented == 501
StatusServiceUnavailable == 503

(* ---------------- status tokens ---------------- *)
OK == "OK"
InvalidArgument == "INVALID_ARGUMENT"
FailedPrecondition == "FAILED_PRECONDITION"
OutOfRange == "OUT_OF_RANGE"
Unauthenticated == "UNAUTHENTICATED"
PermissionDenied == "PERMISSION_DENIED"
NotFound == "NOT_FOUND"
Aborted == "ABORTED"
AlreadyExists == "ALREADY_EXISTS"
ResourceExhausted == "RESOURCE_EXHAUSTED"
Canceled == "CANCELLED"
DataLoss == "DATA_LOSS"
Unknown == "UNKNOWN"
Internal == "INTERNAL"
NotImplemented == "NOT_IMPLEMENTED"
Unavailable == "UNAVAILABLE"
DeadlineExceeded == "DEADLINE_EXCEEDED"

fallback == "{\"error\": \"failed to marshal error message\"}"

\* codes.Code is a uint32 and the status proto carries the code as an int32: the
\* codes modelled are non-negative, where int32(c), codes.Code(c) and c are one number.
KnownCodes == 0 .. 16

(* ---------------- Status Translator ---------------- *)
HTTPStatusStringFromCode_Mut(code) ==
  CASE code = CodeOK -> OK
    [] code = CodeCanceled -> Canceled
    [] code = CodeUnknown -> Unknown
    [] code = CodeInvalidArgument -> InvalidArgument
    [] code = CodeDeadlineExceeded -> DeadlineExceeded
    [] code = CodeNotFound -> NotFound
    [] code = CodeAlreadyExists -> AlreadyExists
    [] code = CodePermissionDenied -> PermissionDenied
    [] code = CodeUnauthenticated -> Unauthenticated
    [] code = CodeResourceExhausted -> ResourceExhausted
    [] code = CodeFailedPrecondition -> FailedPrecondition
    [] code = CodeAborted -> Aborted
    [] code = CodeOutOfRange -> OutOfRange
    [] code = CodeUnimplemented -> "UNIMPLEMENTED"
    [] code = CodeInternal -> Internal
    [] code = CodeUnavailable -> Unavailable
    [] code = CodeDataLoss -> DataLoss
    [] OTHER -> Unknown

HTTPStatusStringFromCode(code) ==
  CASE code = CodeOK -> OK
    [] code = CodeCanceled -> Canceled
    [] code = CodeUnknown -> Unknown
    [] code = CodeInvalidArgument -> InvalidArgument
    [] code = CodeDeadlineExceeded -> DeadlineExceeded
    [] code = CodeNotFound -> NotFound
    [] code = CodeAlreadyExists -> AlreadyExists
    [] code = CodePermissionDenied -> PermissionDenied
    [] code = CodeUnauthenticated -> Unauthenticated
    [] code = CodeResourceExhausted -> ResourceExhausted
    [] code = CodeFailedPrecondition -> FailedPrecondition
    [] code = CodeAborted -> Aborted
    [] code = CodeOutOfRange -> OutOfRange
    [] code = CodeUnimplemented -> NotImplemented
    [] code = CodeInternal -> Internal
    [] code = CodeUnavailable -> Unavailable
    [] code = CodeDataLoss -> DataLoss
    [] OTHER -> Internal

HTTPStatusFromCode_Mut(code) ==
  CASE code = CodeOK -> StatusOK
    [] code = CodeCanceled -> StatusRequestTimeout
    [] code = CodeUnknown -> StatusInternalServerError
    [] code = CodeInvalidArgument -> StatusBadRequest
    [] code = CodeDeadlineExceeded -> StatusRequestTimeout
    [] code = CodeNotFound -> StatusNotFound
    [] code = CodeAlreadyExists -> StatusConflict
    [] code = CodePermissionDenied -> StatusForbidden
    [] code = CodeUnauthenticated -> StatusForbidden
    [] code = CodeResourceExhausted -> StatusForbidden
    [] code = CodeFailedPrecondition -> StatusPreconditionFailed
    [] code = CodeAborted -> StatusConflict
    [] code = CodeOutOfRange -> StatusBadRequest
    [] code = CodeUnimplemented -> StatusNotImplemented
    [] code = CodeInternal -> StatusInternalServerError
    [] code = CodeUnavailable -> StatusServiceUnavailable
    [] code = CodeDataLoss -> StatusInternalServerError
    [] OTHER -> StatusOK

HTTPStatusFromCode(code) ==
  CASE code = CodeOK -> StatusOK
    [] code = CodeCanceled -> StatusRequestTimeout
    [] code = CodeUnknown -> StatusInternalServerError
    [] code = CodeInvalidArgument -> StatusBadRequest
    [] code = CodeDeadlineExceeded -> StatusRequestTimeout
    [] code = CodeNotFound -> StatusNotFound
    [] code = CodeAlreadyExists -> StatusConflict
    [] code = CodePermissionDenied -> StatusForbidden
    [] code = CodeUnauthenticated -> StatusUnauthorized
    [] code = CodeResourceExhausted -> StatusForbidden
    [] code = CodeFailedPrecondition -> StatusPreconditionFailed
    [] code = CodeAborted -> StatusConflict
    [] code = CodeOutOfRange -> StatusBadRequest
    [] code = CodeUnimplemented -> StatusNotImplemented
    [] code = CodeInternal -> StatusInternalServerError
    [] code = CodeUnavailable -> StatusServiceUnavailable
    [] code = CodeDataLoss -> StatusInternalServerError
    [] OTHER -> StatusInternalServerError

\* both translators print a diagnostic for a code outside the switch
UnknownCodeLog(code) == IF code \in KnownCodes THEN <<>> ELSE <<"Unknown gRPC error code">>

(* ---------------- http.Header ---------------- *)
HeaderDel(h, k) == [x \in (DOMAIN h) \ {k} |-> h[x]]

HeaderSet(h, k, v) == [x \in (DOMAIN h) \cup {k} |-> IF x = k THEN <<v>> ELSE h[x]]

HeaderAdd(h, k, v) ==
  [x \in (DOMAIN h) \cup {k} |->
     IF x = k THEN (IF k \in DOMAIN h THEN Append(h[k], v) ELSE <<v>>) ELSE h[x]]

EmptyHeader == [x \in {} |-> <<>>]

(* ---------------- inputs ---------------- *)
Requests == {1, 2}

ContentType == "application/json"     \* marshaler.ContentType()

DetailRecords == {"d1", "d2"}

DetailSeqs == UNION {[1 .. n -> DetailRecords] : n \in 0 .. MaxDetails}

\* errors that carry an RPC status (code as the int32 of the status proto): every
\* code without details, and a defined and an undefined code with every detail list
StatusErrors ==
  {e \in [isStatus : {TRUE}, code : 0 .. MaxCode, message : {"missing"},
          details : DetailSeqs, text : {"rpc error"}] :
     e.details = <<>> \/ e.code \in {CodeNotFound, MaxCode}}

\* errors that carry no RPC status; text is err.Error()
PlainErrors ==
  {[isStatus |-> FALSE, code |-> 0, message |-> "", details |-> <<>>, text |-> t] :
     t \in {"boom", ""}}

Errors == StatusErrors \cup PlainErrors

MDKeyName == <<"X-A", "X-B", "X-C", "X-D">>

MDValName == <<"a", "b", "c", "d">>

MDPairs == {<<MDKeyName[i], MDValName[i]>> : i \in 1 .. MaxMDKeys}

TrailerPairs == {<<"T-A", "ta">>, <<"T-B", "tb">>}

DupFreeSeqs(S) ==
  {q \in UNION {[1 .. n -> S] : n \in 0 .. Cardinality(S)} :
     \A i, j \in 1 .. Len(q) : i # j => q[i] # q[j]}

\* ServerMetadata: two ordered sets of key/value pairs
ServerMetadata ==
  {[present |-> TRUE, HeaderMD |-> h, TrailerMD |-> t] :
     h \in DupFreeSeqs(MDPairs), t \in DupFreeSeqs(TrailerPairs)}

\* the zero ServerMetadata, which is also what a context without metadata yields
NoMD == [present |-> FALSE, HeaderMD |-> <<>>, TrailerMD |-> <<>>]

\* header sets a response writer may already carry when the renderer is called
PreHeaders ==
  {EmptyHeader,
   [x \in {"Trailer", MDKeyName[1]} |-> IF x = "Trailer" THEN <<"Old-Trailer">> ELSE <<"old">>]}

\* the reduced inputs of the two-request specification
PairErrors ==
  {e \in Errors : /\ e.details = <<>>
                  /\ \/ e.isStatus /\ e.code = CodeNotFound /\ e.message = "missing"
                     \/ ~e.isStatus /\ e.text = "boom"}

PairMetadata ==
  {m \in ServerMetadata : Len(m.HeaderMD) <= 1 /\ Len(m.TrailerMD) <= 1}

(* ---------------- collaborators ---------------- *)
\* status.FromError: the status of the error and whether it carries one
FromError(e) ==
  IF e.isStatus
    THEN <<[code |-> e.code, message |-> e.message, details |-> e.details], TRUE>>
    ELSE <<[code |-> CodeUnknown, message |-> e.text, details |-> <<>>], FALSE>>

\* status.New(codes.Unknown, msg)
StatusNew(c, msg) == [code |-> c, message |-> msg, details |-> <<>>]

\* marshaler.Marshal: the bytes of an envelope
MarshalBytes(b) == [text |-> "", msg |-> <<b>>]

\* the bytes of a string literal
StringBytes(str) == [text |-> str, msg |-> <<>>]

ServerMetadataFromContext(c) == <<c, c.present>>

RECURSIVE AddAll(_, _)
AddAll(h, pairs) ==
  IF Len(pairs) = 0 THEN h
  ELSE AddAll(HeaderAdd(h, pairs[1][1], pairs[1][2]), Tail(pairs))

TrailerNames(m) == [i \in 1 .. Len(m.TrailerMD) |-> <<"Trailer", m.TrailerMD[i][1]>>]

handleForwardResponseServerMetadata(h, m) == AddAll(h, m.HeaderMD)

handleForwardResponseTrailerHeader(h, m) == AddAll(h, TrailerNames(m))

handleForwardResponseTrailer(t, m) == AddAll(t, m.TrailerMD)

\* one call on the response writer
Call(op, key, val, code) == [op |-> op, key |-> key, val |-> val, code |-> code]

AddCalls(op, pairs) == [i \in 1 .. Len(pairs) |-> Call(op, pairs[i][1], pairs[i][2], 0)]

(* ---------------- state ---------------- *)
VARIABLES
  reqs,          \* the requests being served
  pc,            \* position of each request in DefaultHTTPError
  err,           \* the error handed to the renderer
  marshalFails,  \* whether marshaler.Marshal returns an error
  writeFails,    \* whether writing the body to the response writer fails
  ctx,           \* the ServerMetadata in the request context (NoMD when absent)
  pre,           \* the header set the response writer carried when the renderer was called
  header,        \* w.Header()
  trailer,       \* the response trailer set
  statusLine,    \* the statuses passed to w.WriteHeader, in order
  written,       \* the body writes attempted on w, in order
  s,             \* local: the status (empty before it is extracted)
  body,          \* local: the envelope (empty before it is built)
  buf,           \* local: the marshalled bytes (empty before Marshal succeeds)
  md,            \* local: the ServerMetadata looked up
  calls,         \* the calls made on the response writer, in order
  logs,          \* the grpclog diagnostics, in order
  tcode,         \* translator harness: the code translated
  thttp,         \* translator harness: result of HTTPStatusFromCode
  ttoken         \* translator harness: result of HTTPStatusStringFromCode

vars == <<reqs, pc, err, marshalFails, writeFails, ctx, pre, header, trailer, statusLine,
          written, s, body, buf, md, calls, logs, tcode, thttp, ttoken>>

inputs == <<reqs, err, marshalFails, writeFails, ctx, pre>>

tvars == <<tcode, thttp, ttoken>>

Locals(R) ==
  /\ pc = [r \in R |-> "start"]
  /\ trailer = [r \in R |-> EmptyHeader]
  /\ statusLine = [r \in R |-> <<>>]
  /\ written = [r \in R |-> <<>>]
  /\ s = [r \in R |-> <<>>]
  /\ body = [r \in R |-> <<>>]
  /\ buf = [r \in R |-> <<>>]
  /\ md = [r \in R |-> NoMD]
  /\ calls = [r \in R |-> <<>>]
  /\ logs = [r \in R |-> <<>>]

\* one request, every input
Init ==
  /\ reqs = {1}
  /\ err \in [reqs -> Errors]
  /\ marshalFails \in [reqs -> BOOLEAN]
  /\ writeFails \in [reqs -> BOOLEAN]
  /\ ctx \in [reqs -> ServerMetadata \cup {NoMD}]
  /\ pre \in [reqs -> PreHeaders]
  /\ header = pre
  /\ Locals(reqs)
  /\ tcode = 0 /\ thttp = <<>> /\ ttoken = <<>>

\* two independent requests served at once
InitPair ==
  /\ reqs = Requests
  /\ err \in [reqs -> PairErrors]
  /\ marshalFails \in [reqs -> BOOLEAN]
  /\ writeFails = [r \in reqs |-> FALSE]
  /\ ctx \in [reqs -> PairMetadata \cup {NoMD}]
  /\ pre = [r \in reqs |-> EmptyHeader]
  /\ header = pre
  /\ Locals(reqs)
  /\ tcode = 0 /\ thttp = <<>> /\ ttoken = <<>>

\* no request: the translators applied to a code
InitTranslate ==
  /\ reqs = {}
  /\ err = <<>> /\ marshalFails = <<>> /\ writeFails = <<>> /\ ctx = <<>>
  /\ pre = <<>>
  /\ header = pre
  /\ Locals(reqs)
  /\ tcode \in (0 .. MaxTranslateCode) \cup {2147483647}
  /\ thttp = <<>> /\ ttoken = <<>>

(* ---------------- DefaultHTTPError ---------------- *)
\* w.Header().Del("Trailer")
DelTrailer(r) ==
  /\ pc[r] = "start"
  /\ header' = [header EXCEPT ![r] = HeaderDel(@, "Trailer")]
  /\ calls' = [calls EXCEPT ![r] = Append(@, Call("Header.Del", "Trailer", "", 0))]
  /\ pc' = [pc EXCEPT ![r] = "set_content_type"]
  /\ UNCHANGED <<inputs, tvars, trailer, statusLine, written, s, body, buf, md, logs>>

\* w.Header().Set("Content-Type", marshaler.ContentType())
SetContentType(r) ==
  /\ pc[r] = "set_content_type"
  /\ header' = [header EXCEPT ![r] = HeaderSet(@, "Content-Type", ContentType)]
  /\ calls' = [calls EXCEPT ![r] = Append(@, Call("Header.Set", "Content-Type", ContentType, 0))]
  /\ pc' = [pc EXCEPT ![r] = "build_body"]
  /\ UNCHANGED <<inputs, tvars, trailer, statusLine, written, s, body, buf, md, logs>>

\* variant: an error without a status is reported as INTERNAL
BuildBody_Internal(r) ==
  /\ pc[r] = "build_body"
  /\ LET fe == FromError(err[r])
         st == IF fe[2] THEN fe[1] ELSE StatusNew(CodeInternal, err[r].text)
     IN /\ s' = [s EXCEPT ![r] = <<st>>]
        /\ body' = [body EXCEPT ![r] =
                      <<[Code |-> st.code, Message |-> st.message, Details |-> st.details,
                         Status |-> HTTPStatusStringFromCode(st.code)]>>]
        /\ logs' = [logs EXCEPT ![r] = @ \o UnknownCodeLog(st.code)]
  /\ pc' = [pc EXCEPT ![r] = "marshal"]
  /\ UNCHANGED <<inputs, tvars, header, trailer, statusLine, written, buf, md, calls>>

\* s, ok := status.FromError(err) ... body := &errorBody{...}
BuildBody(r) ==
  /\ pc[r] = "build_body"
  /\ LET fe == FromError(err[r])
         st == IF fe[2] THEN fe[1] ELSE StatusNew(CodeUnknown, err[r].text)
     IN /\ s' = [s EXCEPT ![r] = <<st>>]
        /\ body' = [body EXCEPT ![r] =
                      <<[Code |-> st.code, Message |-> st.message, Details |-> st.details,
                         Status |-> HTTPStatusStringFromCode(st.code)]>>]
        /\ logs' = [logs EXCEPT ![r] = @ \o UnknownCodeLog(st.code)]
  /\ pc' = [pc EXCEPT ![r] = "marshal"]
  /\ UNCHANGED <<inputs, tvars, header, trailer, statusLine, written, buf, md, calls>>

\* buf, merr := marshaler.Marshal(body); if merr != nil
Marshal(r) ==
  /\ pc[r] = "marshal"
  /\ IF marshalFails[r]
       THEN /\ pc' = [pc EXCEPT ![r] = "marshal_failed"]
            /\ UNCHANGED buf
       ELSE /\ pc' = [pc EXCEPT ![r] = "lookup_md"]
            /\ buf' = [buf EXCEPT ![r] = <<MarshalBytes(body[r][1])>>]
  /\ UNCHANGED <<inputs, tvars, header, trailer, statusLine, written, s, body, md, calls, logs>>

\* variant: the failure path forwards the metadata headers before the status
WriteHeaderInternal_Forwarding(r) ==
  /\ pc[r] = "marshal_failed"
  /\ logs' = [logs EXCEPT ![r] = Append(@, "Failed to marshal error message")]
  /\ header' = [header EXCEPT ![r] = handleForwardResponseServerMetadata(@, ctx[r])]
  /\ statusLine' = [statusLine EXCEPT ![r] = Append(@, StatusInternalServerError)]
  /\ calls' = [calls EXCEPT ![r] = (@ \o AddCalls("Header.Add", ctx[r].HeaderMD))
                                     \o <<Call("WriteHeader", "", "", StatusInternalServerError)>>]
  /\ pc' = [pc EXCEPT ![r] = "write_fallback"]
  /\ UNCHANGED <<inputs, tvars, trailer, written, s, body, buf, md>>

\* grpclog.Printf(...); w.WriteHeader(http.StatusInternalServerError)
WriteHeaderInternal(r) ==
  /\ pc[r] = "marshal_failed"
  /\ logs' = [logs EXCEPT ![r] = Append(@, "Failed to marshal error message")]
  /\ statusLine' = [statusLine EXCEPT ![r] = Append(@, StatusInternalServerError)]
  /\ calls' = [calls EXCEPT ![r] = Append(@, Call("WriteHeader", "", "", StatusInternalServerError))]
  /\ pc' = [pc EXCEPT ![r] = "write_fallback"]
  /\ UNCHANGED <<inputs, tvars, header, trailer, written, s, body, buf, md>>

\* io.WriteString(w, fallback); return
WriteFallback(r) ==
  /\ pc[r] = "write_fallback"
  /\ written' = [written EXCEPT ![r] = Append(@, [data |-> StringBytes(fallback), ok |-> ~writeFails[r]])]
  /\ calls' = [calls EXCEPT ![r] = Append(@, Call("Write", "", "", 0))]
  /\ logs' = [logs EXCEPT ![r] = IF writeFails[r] THEN Append(@, "Failed to write response") ELSE @]
  /\ pc' = [pc EXCEPT ![r] = "done"]
  /\ UNCHANGED <<inputs, tvars, header, trailer, statusLine, s, body, buf, md>>

\* variant: the metadata is read from a carrier shared by the requests
LookupMD_Shared(r) ==
  /\ pc[r] = "lookup_md"
  /\ LET o == CHOOSE x \in reqs : reqs = {r} \/ x # r
         res == ServerMetadataFromContext(ctx[o])
     IN /\ md' = [md EXCEPT ![r] = res[1]]
        /\ logs' = [logs EXCEPT ![r] =
                      IF res[2] THEN @ ELSE Append(@, "Failed to extract ServerMetadata from context")]
  /\ pc' = [pc EXCEPT ![r] = "forward_metadata"]
  /\ UNCHANGED <<inputs, tvars, header, trailer, statusLine, written, s, body, buf, calls>>

\* variant: a missing ServerMetadata ends the rendering
LookupMD_Abort(r) ==
  /\ pc[r] = "lookup_md"
  /\ LET res == ServerMetadataFromContext(ctx[r])
     IN /\ md' = [md EXCEPT ![r] = res[1]]
        /\ logs' = [logs EXCEPT ![r] =
                      IF res[2] THEN @ ELSE Append(@, "Failed to extract ServerMetadata from context")]
        /\ pc' = [pc EXCEPT ![r] = IF res[2] THEN "forward_metadata" ELSE "done"]
  /\ UNCHANGED <<inputs, tvars, header, trailer, statusLine, written, s, body, buf, calls>>

\* md, ok := ServerMetadataFromContext(ctx); if !ok { grpclog.Printf(...) }
LookupMD(r) ==
  /\ pc[r] = "lookup_md"
  /\ LET res == ServerMetadataFromContext(ctx[r])
     IN /\ md' = [md EXCEPT ![r] = res[1]]
        /\ logs' = [logs EXCEPT ![r] =
                      IF res[2] THEN @ ELSE Append(@, "Failed to extract ServerMetadata from context")]
  /\ pc' = [pc EXCEPT ![r] = "forward_metadata"]
  /\ UNCHANGED <<inputs, tvars, header, trailer, statusLine, written, s, body, buf, calls>>

\* handleForwardResponseServerMetadata(w, mux, md)
ForwardServerMetadata(r) ==
  /\ pc[r] = "forward_metadata"
  /\ header' = [header EXCEPT ![r] = handleForwardResponseServerMetadata(@, md[r])]
  /\ calls' = [calls EXCEPT ![r] = @ \o AddCalls("Header.Add", md[r].HeaderMD)]
  /\ pc' = [pc EXCEPT ![r] = "forward_trailer_header"]
  /\ UNCHANGED <<inputs, tvars, trailer, statusLine, written, s, body, buf, md, logs>>

\* handleForwardResponseTrailerHeader(w, md)
ForwardTrailerHeader(r) ==
  /\ pc[r] = "forward_trailer_header"
  /\ header' = [header EXCEPT ![r] = handleForwardResponseTrailerHeader(@, md[r])]
  /\ calls' = [calls EXCEPT ![r] = @ \o AddCalls("Header.Add", TrailerNames(md[r]))]
  /\ pc' = [pc EXCEPT ![r] = "write_header"]
  /\ UNCHANGED <<inputs, tvars, trailer, statusLine, written, s, body, buf, md, logs>>

\* variant: the status line is the one mapped from the RPC code
WriteHeaderOK_Mapped(r) ==
  /\ pc[r] = "write_header"
  /\ statusLine' = [statusLine EXCEPT ![r] = Append(@, HTTPStatusFromCode(s[r][1].code))]
  /\ calls' = [calls EXCEPT ![r] = Append(@, Call("WriteHeader", "", "", HTTPStatusFromCode(s[r][1].code)))]
  /\ pc' = [pc EXCEPT ![r] = "write_body"]
  /\ UNCHANGED <<inputs, tvars, header, trailer, written, s, body, buf, md, logs>>

\* w.WriteHeader(http.StatusOK)
WriteHeaderOK(r) ==
  /\ pc[r] = "write_header"
  /\ statusLine' = [statusLine EXCEPT ![r] = Append(@, StatusOK)]
  /\ calls' = [calls EXCEPT ![r] = Append(@, Call("WriteHeader", "", "", StatusOK))]
  /\ pc' = [pc EXCEPT ![r] = "write_body"]
  /\ UNCHANGED <<inputs, tvars, header, trailer, written, s, body, buf, md, logs>>

\* variant: a failed body write is tried a second time
WriteBody_Retry(r) ==
  /\ pc[r] = "write_body"
  /\ LET w1 == [data |-> buf[r][1], ok |-> ~writeFails[r]]
     IN written' = [written EXCEPT ![r] = IF writeFails[r] THEN @ \o <<w1, w1>> ELSE Append(@, w1)]
  /\ calls' = [calls EXCEPT ![r] =
                 IF writeFails[r] THEN @ \o <<Call("Write", "", "", 0), Call("Write", "", "", 0)>>
                 ELSE Append(@, Call("Write", "", "", 0))]
  /\ logs' = [logs EXCEPT ![r] = IF writeFails[r] THEN Append(@, "Failed to write response") ELSE @]
  /\ pc' = [pc EXCEPT ![r] = "forward_trailer"]
  /\ UNCHANGED <<inputs, tvars, header, trailer, statusLine, s, body, buf, md>>

\* variant: the trailer entries are copied before the body is written
WriteBody_TrailersFirst(r) ==
  /\ pc[r] = "write_body"
  /\ trailer' = [trailer EXCEPT ![r] = handleForwardResponseTrailer(@, md[r])]
  /\ written' = [written EXCEPT ![r] = Append(@, [data |-> buf[r][1], ok |-> ~writeFails[r]])]
  /\ calls' = [calls EXCEPT ![r] = (@ \o AddCalls("Trailer.Add", md[r].TrailerMD))
                                     \o <<Call("Write", "", "", 0)>>]
  /\ logs' = [logs EXCEPT ![r] = IF writeFails[r] THEN Append(@, "Failed to write response") ELSE @]
  /\ pc' = [pc EXCEPT ![r] = "forward_trailer"]
  /\ UNCHANGED <<inputs, tvars, header, statusLine, s, body, buf, md>>

\* if _, err := w.Write(buf); err != nil { grpclog.Printf(...) }
WriteBody(r) ==
  /\ pc[r] = "write_body"
  /\ written' = [written EXCEPT ![r] = Append(@, [data |-> buf[r][1], ok |-> ~writeFails[r]])]
  /\ calls' = [calls EXCEPT ![r] = Append(@, Call("Write", "", "", 0))]
  /\ logs' = [logs EXCEPT ![r] = IF writeFails[r] THEN Append(@, "Failed to write response") ELSE @]
  /\ pc' = [pc EXCEPT ![r] = "forward_trailer"]
  /\ UNCHANGED <<inputs, tvars, header, trailer, statusLine, s, body, buf, md>>

\* handleForwardResponseTrailer(w, md)
ForwardTrailer(r) ==
  /\ pc[r] = "forward_trailer"
  /\ trailer' = [trailer EXCEPT ![r] = handleForwardResponseTrailer(@, md[r])]
  /\ calls' = [calls EXCEPT ![r] = @ \o AddCalls("Trailer.Add", md[r].TrailerMD)]
  /\ pc' = [pc EXCEPT ![r] = "done"]
  /\ UNCHANGED <<inputs, tvars, header, statusLine, written, s, body, buf, md, logs>>

Step(r) ==
    \/ DelTrailer(r)
    \/ SetContentType(r)
    \/ BuildBody(r)
    \/ Marshal(r)
    \/ WriteHeaderInternal(r)
    \/ WriteFallback(r)
    \/ LookupMD(r)
    \/ ForwardServerMetadata(r)
    \/ ForwardTrailerHeader(r)
    \/ WriteHeaderOK(r)
    \/ WriteBody(r)
    \/ ForwardTrailer(r)

Next == \E r \in reqs : Step(r)

Spec == Init /\ [][Next]_vars

SpecPair == InitPair /\ [][Next]_vars

(* ---------------- translator harness ---------------- *)
hvars == <<reqs, pc, err, marshalFails, writeFails, ctx, pre, header, trailer, statusLine,
           written, s, body, buf, md, calls, logs>>

CallHTTPStatusFromCode ==
  /\ thttp = <<>>
  /\ thttp' = <<HTTPStatusFromCode(tcode)>>
  /\ UNCHANGED <<hvars, tcode, ttoken>>

CallHTTPStatusStringFromCode ==
  /\ ttoken = <<>>
  /\ ttoken' = <<HTTPStatusStringFromCode(tcode)>>
  /\ UNCHANGED <<hvars, tcode, thttp>>

NextTranslate == CallHTTPStatusFromCode \/ CallHTTPStatusStringFromCode

SpecTranslate == InitTranslate /\ [][NextTranslate]_vars

(* ---------------- properties ---------------- *)
\* the table of section 4.1: code -> HTTP status
TableHTTPStatus ==
  [c \in KnownCodes |->
     CASE c = CodeOK -> 200
       [] c = CodeCanceled -> 408
       [] c = CodeUnknown -> 500
       [] c = CodeInvalidArgument -> 400
       [] c = CodeDeadlineExceeded -> 408
       [] c = CodeNotFound -> 404
       [] c = CodeAlreadyExists -> 409
       [] c = CodePermissionDenied -> 403
       [] c = CodeUnauthenticated -> 401
       [] c = CodeResourceExhausted -> 403
       [] c = CodeFailedPrecondition -> 412
       [] c = CodeAborted -> 409
       [] c = CodeOutOfRange -> 400
       [] c = CodeUnimplemented -> 501
       [] c = CodeInternal -> 500
       [] c = CodeUnavailable -> 503
       [] c = CodeDataLoss -> 500]

\* the names of the enumeration, by numeric code
EnumName ==
  [c \in KnownCodes |->
     CASE c = CodeOK -> "OK"
       [] c = CodeCanceled -> "CANCELLED"
       [] c = CodeUnknown -> "UNKNOWN"
       [] c = CodeInvalidArgument -> "INVALID_ARGUMENT"
       [] c = CodeDeadlineExceeded -> "DEADLINE_EXCEEDED"
       [] c = CodeNotFound -> "NOT_FOUND"
       [] c = CodeAlreadyExists -> "ALREADY_EXISTS"
       [] c = CodePermissionDenied -> "PERMISSION_DENIED"
       [] c = CodeUnauthenticated -> "UNAUTHENTICATED"
       [] c = CodeResourceExhausted -> "RESOURCE_EXHAUSTED"
       [] c = CodeFailedPrecondition -> "FAILED_PRECONDITION"
       [] c = CodeAborted -> "ABORTED"
       [] c = CodeOutOfRange -> "OUT_OF_RANGE"
       [] c = CodeUnimplemented -> "UNIMPLEMENTED"
       [] c = CodeInternal -> "INTERNAL"
       [] c = CodeUnavailable -> "UNAVAILABLE"
       [] c = CodeDataLoss -> "DATA_LOSS"]

\* C1: HTTPStatusFromCode is total: it can be applied to every code, it returns the
\* table value for each of the 17 defined codes and 500 for every other code.
C1_HTTPStatusTable ==
  /\ thttp = <<>> => ENABLED CallHTTPStatusFromCode
  /\ thttp # <<>> =>
       thttp = <<IF tcode \in KnownCodes THEN TableHTTPStatus[tcode] ELSE 500>>

C1_Witness == tcode = CodeNotFound /\ thttp = <<404>>

\* C2: HTTPStatusStringFromCode is total: for a defined code the token is the
\* enumeration name, except NOT_IMPLEMENTED for UNIMPLEMENTED (and CANCELLED for
\* CANCELLED); for every other code it is INTERNAL.
C2_TokenTable ==
  /\ ttoken = <<>> => ENABLED CallHTTPStatusStringFromCode
  /\ ttoken # <<>> =>
       ttoken = <<IF tcode = CodeUnimplemented THEN "NOT_IMPLEMENTED"
                  ELSE IF tcode = CodeCanceled THEN "CANCELLED"
                  ELSE IF tcode \in KnownCodes THEN EnumName[tcode]
                  ELSE "INTERNAL">>

C2_Witness == tcode = CodeUnimplemented /\ ttoken = <<"NOT_IMPLEMENTED">>

\* the request's Marshal call has succeeded
Marshalled(r) == ~marshalFails[r] /\ buf[r] # <<>>

C4_RepliesWithMappedStatus ==
  \A r \in reqs :
    (Marshalled(r) /\ statusLine[r] # <<>>) =>
      statusLine[r][1] = IF err[r].isStatus THEN HTTPStatusFromCode(err[r].code)
                         ELSE StatusInternalServerError

\* the header set after lines 195-196, from the header set on entry
HeaderAfterPrologue(r) == HeaderSet(HeaderDel(pre[r], "Trailer"), "Content-Type", ContentType)

\* C5: when Marshal fails the renderer writes 500 and the fallback body and stops:
\* no header but Content-Type is set, no metadata is looked up or copied, and the
\* renderer ends also when the fallback write fails.
C5_MarshalFailure ==
  \A r \in reqs :
    (marshalFails[r] /\ pc[r] \in {"marshal_failed", "write_fallback", "done"}) =>
      /\ header[r] = HeaderAfterPrologue(r)
      /\ trailer[r] = EmptyHeader
      /\ md[r] = NoMD
      /\ \A i \in 1 .. Len(calls[r]) : calls[r][i].op \notin {"Header.Add", "Trailer.Add"}
      /\ pc[r] = "marshal_failed" => statusLine[r] = <<>> /\ written[r] = <<>>
      /\ pc[r] = "write_fallback" =>
           /\ statusLine[r] = <<500>> /\ written[r] = <<>>
           /\ ENABLED WriteFallback(r)
      /\ pc[r] = "done" =>
           /\ statusLine[r] = <<500>>
           /\ written[r] = <<[data |-> StringBytes("{\"error\": \"failed to marshal error message\"}"),
                              ok |-> ~writeFails[r]]>>
           /\ ~ ENABLED Step(r)

C5_Witness ==
  \E r \in reqs :
    /\ marshalFails[r] /\ writeFails[r] /\ pc[r] = "done"
    /\ ctx[r].present /\ Len(ctx[r].HeaderMD) > 0 /\ Len(ctx[r].TrailerMD) > 0
    /\ "Trailer" \in DOMAIN pre[r]
    /\ statusLine[r] = <<500>>

\* C6: the envelope is determined by the error alone.
ExpectedEnvelope(e) ==
  IF e.isStatus
    THEN [Code |-> e.code, Message |-> e.message, Details |-> e.details,
          Status |-> HTTPStatusStringFromCode(e.code)]
    ELSE [Code |-> 2, Message |-> e.text, Details |-> <<>>, Status |-> "UNKNOWN"]

C6_Envelope ==
  \A r \in reqs :
    /\ pc[r] \notin {"start", "set_content_type", "build_body"} => body[r] = <<ExpectedEnvelope(err[r])>>
    /\ buf[r] # <<>> => buf[r][1].msg = <<ExpectedEnvelope(err[r])>>

C6_Witness ==
  \E r \in reqs :
    /\ ~err[r].isStatus /\ err[r].text = "boom"
    /\ buf[r] # <<>>
    /\ buf[r][1].msg[1].Status = "UNKNOWN"

\* C7: every invocation runs to its end, writes the status line exactly once and
\* attempts the body write exactly once.
C7_ExactlyOneResponse ==
  \A r \in reqs :
    /\ Len(statusLine[r]) <= 1
    /\ Len(written[r]) <= 1
    /\ Len(written[r]) = 1 => Len(statusLine[r]) = 1
    /\ pc[r] # "done" => ENABLED Step(r)
    /\ pc[r] = "done" => Len(statusLine[r]) = 1 /\ Len(written[r]) = 1

C7_Witness ==
  \E r \in reqs :
    /\ pc[r] = "done" /\ ~marshalFails[r] /\ writeFails[r] /\ ~ctx[r].present
    /\ Len(statusLine[r]) = 1 /\ Len(written[r]) = 1

Entries(h) == UNION {{<<k, h[k][i]>> : i \in 1 .. Len(h[k])} : k \in DOMAIN h}

\* the header and trailer entries a request's own inputs account for
OwnHeaderEntries(r) ==
  Entries(pre[r])
    \cup {<<"Content-Type", ContentType>>}
    \cup {ctx[r].HeaderMD[i] : i \in 1 .. Len(ctx[r].HeaderMD)}
    \cup {<<"Trailer", ctx[r].TrailerMD[i][1]>> : i \in 1 .. Len(ctx[r].TrailerMD)}

OwnTrailerEntries(r) == {ctx[r].TrailerMD[i] : i \in 1 .. Len(ctx[r].TrailerMD)}

\* C8: with two requests rendered in any interleaving, every header and trailer
\* entry of a response comes from that request's own metadata (or is Content-Type).
C8_Isolation ==
  \A r \in reqs :
    /\ Entries(header[r]) \subseteq OwnHeaderEntries(r)
    /\ Entries(trailer[r]) \subseteq OwnTrailerEntries(r)
    /\ pc[r] = "done" /\ ~marshalFails[r] =>
         /\ Entries(header[r]) = OwnHeaderEntries(r) \ Entries([x \in {"Trailer"} \cap DOMAIN pre[r] |-> pre[r][x]])
         /\ Entries(trailer[r]) = OwnTrailerEntries(r)

C8_Witness ==
  /\ reqs = {1, 2}
  /\ \A r \in reqs : pc[r] = "done" /\ ~marshalFails[r] /\ ctx[r].present
  /\ Len(ctx[1].HeaderMD) = 1 /\ Len(ctx[2].HeaderMD) = 1
  /\ Len(ctx[1].TrailerMD) = 1 /\ Len(ctx[2].TrailerMD) = 1
  /\ ctx[1].HeaderMD # ctx[2].HeaderMD
  /\ ctx[1].TrailerMD # ctx[2].TrailerMD
  /\ Entries(header[1]) # Entries(header[2])
  /\ Entries(trailer[1]) # Entries(trailer[2])

Phase(c) ==
  CASE c.op = "Header.Del" -> 1
    [] c.op = "Header.Set" -> 2
    [] c.op = "Header.Add" /\ c.key # "Trailer" -> 3
    [] c.op = "Header.Add" /\ c.key = "Trailer" -> 4
    [] c.op = "WriteHeader" -> 5
    [] c.op = "Write" -> 6
    [] c.op = "Trailer.Add" -> 7

\* C10: on the marshal-success path the calls on the response writer come in the order
\* Del Trailer, Set Content-Type, header entries, Trailer declarations, status line,
\* body, trailer entries; nothing of an earlier kind follows a later one.
C10_Order ==
  \A r \in reqs :
    ~marshalFails[r] =>
      /\ \A i, j \in 1 .. Len(calls[r]) : i < j => Phase(calls[r][i]) <= Phase(calls[r][j])
      /\ Len(calls[r]) >= 1 => calls[r][1] = Call("Header.Del", "Trailer", "", 0)
      /\ Len(calls[r]) >= 2 => calls[r][2] = Call("Header.Set", "Content-Type", ContentType, 0)
      /\ statusLine[r] # <<>> =>
           /\ header[r] = AddAll(AddAll(HeaderAfterPrologue(r), ctx[r].HeaderMD), TrailerNames(ctx[r]))
           /\ \E i \in 1 .. Len(calls[r]) : calls[r][i].op = "WriteHeader"
      /\ written[r] = <<>> => trailer[r] = EmptyHeader
      /\ pc[r] = "done" =>
           /\ trailer[r] = AddAll(EmptyHeader, ctx[r].TrailerMD)
           /\ Len(calls[r]) = 4 + Len(ctx[r].HeaderMD) + 2 * Len(ctx[r].TrailerMD)

C10_Witness ==
  \E r \in reqs :
    /\ pc[r] = "done" /\ ~marshalFails[r] /\ ctx[r].present
    /\ Len(ctx[r].HeaderMD) = 2 /\ Len(ctx[r].TrailerMD) = 2
    /\ "Trailer" \in DOMAIN pre[r]
    /\ Len(calls[r]) = 10

====
